---- MODULE Spec2Model ----
(***************************************************************************)
(* Model of start.py (Frappe Quickstart): the setup wizard main(), the     *)
(* helpers it calls and the initialization-completion poller               *)
(* wait_for_site_creation().                                               *)
(***************************************************************************)
EXTENDS Integers, Sequences, FiniteSets, TLC

VARIABLES
    pc,                 \* position of the single thread of control
    clock,              \* time.time(), in whole seconds
    timeout,            \* wait_for_site_creation: the timeout argument
    start_time,         \* wait_for_site_creation: start_time
    elapsed,            \* wait_for_site_creation: elapsed
    last_elapsed_shown, \* wait_for_site_creation: last_elapsed_shown
    dots,               \* wait_for_site_creation: dots
    ret,                \* wait_for_site_creation: returned value ("none" before return)
    reported,           \* wait_for_site_creation: error line it printed
    observe,            \* history: whether lastOut is kept (the poller run on its own)
    lastOut,            \* history: result of the 'docker compose ps' of the current poll
    termSeen,           \* history: some successful status output held an exited create-site record
    nSleeps,            \* history: number of time.sleep(3) calls of the poller
    emitted,            \* history: elapsed value of each progress line printed
    task,               \* the create-site one-shot task, owned by the container runtime
    cmds,               \* history: how often each external command was run
    preset_file,        \* presets/<name>.json as found on disk
    apps,               \* main: apps, the list load_preset returned
    app_names,          \* create_env_file: app_names
    clone_names,        \* clone_apps_to_host: app_name of each app, in order
    occupied,           \* the ports another socket is bound to
    start_port,         \* find_available_port: start_port argument
    max_tries,          \* find_available_port: max_tries argument
    try_port,           \* find_available_port: the loop variable port
    port_result,        \* find_available_port: <<"none">>, <<"port", p>> or <<"RuntimeError">>
    args,               \* main: the parsed command line (destroy, port, no_browser)
    response,           \* main: what input() returned at the --destroy prompt
    port,               \* main: port
    passwords,          \* main: whether admin_password and db_password are generated
    files,              \* the generated files present in the working directory
    apps_dir,           \* whether ./apps exists
    dirs,               \* the directories present under ./apps, by name
    clone_i,            \* clone_apps_to_host: position of the loop over apps
    docker,             \* the container runtime: image built, services up, volumes present
    steps,              \* history: the setup steps begun, in order
    clones,             \* history: the directory name of each git clone run
    browser,            \* history: outcome of webbrowser.open
    exited,             \* <<>> while the process runs, <<code>> once it has exited
    cause               \* history: why and where the process exited (<<kind, pc>>)

pollVars == <<clock, timeout, start_time, elapsed, last_elapsed_shown, dots, ret,
              reported, observe, lastOut, termSeen, nSleeps, emitted>>

nameVars == <<preset_file, apps, app_names, clone_names>>

portVars == <<occupied, start_port, max_tries, try_port, port_result>>

mainVars == <<args, response, port, passwords, files, apps_dir, dirs, clone_i, docker,
              steps, clones, browser, exited, cause>>

vars == <<pc, pollVars, task, cmds, nameVars, portVars, mainVars>>

(***************************************************************************)
(* Bounds of the model.                                                    *)
(***************************************************************************)
MaxTimeout == 21    \* largest timeout argument the poller is called with
MaxQueryDur == 1    \* longest a status query takes, in seconds
MaxLines == 2       \* most lines in one status output
MaxTries == 3       \* largest max_tries find_available_port is called with on its own
MaxUrlLen == 5      \* longest url of a preset entry, in characters
ScaledTimeout == 4  \* the timeout main's run of the poller is given (the default is 300)

(***************************************************************************)
(* Program constants.                                                      *)
(***************************************************************************)
PollInterval == 3       \* time.sleep(3)
ProgressInterval == 10  \* elapsed - last_elapsed_shown >= 10
DotsModulus == 4        \* dots = (dots + 1) % 4
DefaultExitCode == -1   \* status_data.get('ExitCode', -1)
DefaultStartPort == 8080 \* find_available_port(start_port: int = 8080, ...)
DefaultMaxTries == 100  \* find_available_port(..., max_tries: int = 100)
BrowserPause == 2       \* time.sleep(2) before webbrowser.open
GivenPort == 9000       \* a --port value

(***************************************************************************)
(* External commands, counted in cmds.                                     *)
(***************************************************************************)
Commands == {"docker --version", "docker compose version", "git clone",
             "docker build", "docker compose down -v", "docker compose down",
             "docker compose up", "docker compose ps"}

Ran(c) == [cmds EXCEPT ![c] = @ + 1]

(***************************************************************************)
(* The create-site task as the container runtime keeps it.                 *)
(***************************************************************************)
TaskStates == {"absent", "created", "running", "exited"}
ExitCodes == {0, 1}

AbsentTask == [state |-> "absent", code |-> 0]

\* The runtime moves the task along: absent -> created -> running -> exited(c).
TaskAdvance ==
    /\ pc \in {"w_loop", "w_query", "w_sleep"}
    /\ \/ /\ task.state = "absent"
          /\ task' = [state |-> "created", code |-> 0]
       \/ /\ task.state = "created"
          /\ task' = [state |-> "running", code |-> 0]
       \/ /\ task.state = "running"
          /\ \E c \in ExitCodes : task' = [state |-> "exited", code |-> c]
    /\ UNCHANGED <<pc, pollVars, cmds, nameVars, portVars, mainVars>>

(***************************************************************************)
(* One line of the stdout of 'docker compose ps --all --format json'.      *)
(* json: json.loads accepts it; dict: the parsed value is an object;       *)
(* f: the object's fields.                                                 *)
(***************************************************************************)
NoFields == [k \in {} |-> 0]
BadLine == [json |-> FALSE, dict |-> FALSE, f |-> NoFields]
NonObjLine == [json |-> TRUE, dict |-> FALSE, f |-> NoFields]
ObjLine(fields) == [json |-> TRUE, dict |-> TRUE, f |-> fields]
OtherLine == ObjLine([Service |-> "backend", State |-> "running", ExitCode |-> 0])
NoServiceLine == ObjLine([State |-> "exited", ExitCode |-> 0])
TaskLine(t) == ObjLine([Service |-> "create-site", State |-> t.state, ExitCode |-> t.code])
TaskLineNoCode(t) == ObjLine([Service |-> "create-site", State |-> t.state])

\* The lines the status query can print while the task is t.
LinesFor(t) ==
    {BadLine, NonObjLine, OtherLine, NoServiceLine}
        \cup (IF t.state = "absent" THEN {} ELSE {TaskLine(t), TaskLineNoCode(t)})

SeqsUpTo(S, n) == UNION {[1..k -> S] : k \in 0..n}

NoOut == [rc |-> 0, lines |-> <<>>]

\* What one status query can return while the task is t: exit status 0 with up to
\* MaxLines lines, or a non-zero exit status with at most one line on stdout.
StatusOutputs(t) ==
    {[rc |-> 0, lines |-> l] : l \in SeqsUpTo(LinesFor(t), MaxLines)}
        \cup {[rc |-> 1, lines |-> l] : l \in SeqsUpTo(LinesFor(t), 1)}

\* dict.get(key, default)
Get(d, key, default) == IF key \in DOMAIN d THEN d[key] ELSE default

(***************************************************************************)
(* wait_for_site_creation: the body of one poll, lines 429-466.            *)
(* st is the poll's local state: last_elapsed_shown, dots, the progress    *)
(* lines printed, and how the for loop over the lines ended.               *)
(***************************************************************************)
LoopState(shown, d, em) ==
    [shown |-> shown, dots |-> d, emitted |-> em, outcome |-> "none", code |-> 0]

\* ShowProgress without the assignment last_elapsed_shown = elapsed of line 447
ShowProgressNoMark(el, st) ==
    IF el - st.shown >= ProgressInterval
    THEN [st EXCEPT !.dots = (@ + 1) % DotsModulus,
                    !.emitted = Append(@, el)]
    ELSE st

\* if elapsed - last_elapsed_shown >= 10: print the progress line
ShowProgress(el, st) ==
    IF el - st.shown >= ProgressInterval
    THEN [st EXCEPT !.dots = (@ + 1) % DotsModulus,
                    !.shown = el,
                    !.emitted = Append(@, el)]
    ELSE st

\* the two terminal checks on a create-site record, lines 450-459
Decide(state, exit_code, st) ==
    IF state = "exited" /\ exit_code = 0
    THEN [st EXCEPT !.outcome = "success"]
    ELSE IF state = "exited" /\ exit_code # 0
    THEN [st EXCEPT !.outcome = "failure", !.code = exit_code]
    ELSE st

\* status_data.get(...) on a value that is no dict raises AttributeError, which
\* only the outer 'except Exception: pass' catches: the for loop is left.
OnNonObject(rest, st) == [st EXCEPT !.outcome = "raised"]

RECURSIVE ProcessLines(_, _, _)
ProcessLines(lines, el, st) ==
    IF lines = <<>> THEN st
    ELSE LET line == Head(lines)
             rest == Tail(lines)
         IN  IF ~line.json
             THEN ProcessLines(rest, el, st)        \* except json.JSONDecodeError: continue
             ELSE IF ~line.dict
             THEN LET r == OnNonObject(rest, st)
                  IN  IF r.outcome = "none" THEN ProcessLines(rest, el, r) ELSE r
             ELSE IF Get(line.f, "Service", "") # "create-site"
             THEN ProcessLines(rest, el, st)
             ELSE LET state == Get(line.f, "State", "")
                      exit_code == Get(line.f, "ExitCode", DefaultExitCode)
                      d == Decide(state, exit_code, ShowProgress(el, st))
                  IN  IF d.outcome = "none" THEN ProcessLines(rest, el, d) ELSE d

\* if result.returncode == 0 and result.stdout.strip(): ... , line 429
Poll(out, el, st) ==
    IF out.rc = 0 /\ out.lines # <<>> THEN ProcessLines(out.lines, el, st) ELSE st

\* A line that is a create-site record in state 'exited'.
IsExitedRecord(line) ==
    /\ line.json /\ line.dict
    /\ Get(line.f, "Service", "") = "create-site"
    /\ Get(line.f, "State", "") = "exited"

HasExitedRecord(out) ==
    out.rc = 0 /\ \E i \in 1..Len(out.lines) : IsExitedRecord(out.lines[i])

(***************************************************************************)
(* wait_for_site_creation, lines 405-472.                                  *)
(***************************************************************************)
WaitEnter ==
    /\ pc = "w_entry"
    /\ start_time' = clock
    /\ last_elapsed_shown' = 0
    /\ dots' = 0
    /\ pc' = "w_loop"
    /\ UNCHANGED <<clock, timeout, elapsed, ret, reported, observe, lastOut, termSeen,
                   nSleeps, emitted, task, cmds, nameVars, portVars, mainVars>>

\* WaitLoop with the loop test written <= instead of <
WaitLoopInclusive ==
    /\ pc = "w_loop"
    /\ clock - start_time <= timeout
    /\ elapsed' = clock - start_time
    /\ pc' = "w_query"
    /\ UNCHANGED <<clock, timeout, start_time, last_elapsed_shown, dots, ret, reported,
                   observe, lastOut, termSeen, nSleeps, emitted, task, cmds, nameVars,
                   portVars, mainVars>>

\* while time.time() - start_time < timeout: elapsed = int(time.time() - start_time)
WaitLoop ==
    /\ pc = "w_loop"
    /\ clock - start_time < timeout
    /\ elapsed' = clock - start_time
    /\ pc' = "w_query"
    /\ UNCHANGED <<clock, timeout, start_time, last_elapsed_shown, dots, ret, reported,
                   observe, lastOut, termSeen, nSleeps, emitted, task, cmds, nameVars, portVars, mainVars>>

\* the loop condition fails: lines 470-472
WaitTimeout ==
    /\ pc = "w_loop"
    /\ ~(clock - start_time < timeout)
    /\ reported' = <<"timed out", timeout>>
    /\ ret' = "False"
    /\ pc' = "w_done"
    /\ UNCHANGED <<clock, timeout, start_time, elapsed, last_elapsed_shown, dots,
                   observe, lastOut, termSeen, nSleeps, emitted, task, cmds, nameVars, portVars, mainVars>>

\* subprocess.run(['docker', 'compose', 'ps', ...]) and the handling of its output
WaitQuery ==
    /\ pc = "w_query"
    /\ \E d \in 0..MaxQueryDur, out \in StatusOutputs(task) :
         LET st == Poll(out, elapsed, LoopState(last_elapsed_shown, dots, emitted))
         IN  /\ clock' = clock + d
             /\ cmds' = Ran("docker compose ps")
             /\ lastOut' = IF observe THEN out ELSE NoOut
             /\ termSeen' = (termSeen \/ HasExitedRecord(out))
             /\ last_elapsed_shown' = st.shown
             /\ dots' = st.dots
             /\ emitted' = st.emitted
             /\ IF st.outcome = "success"
                THEN /\ ret' = "True"
                     /\ pc' = "w_done"
                     /\ UNCHANGED reported
                ELSE IF st.outcome = "failure"
                THEN /\ ret' = "False"
                     /\ reported' = <<"exit code", st.code>>
                     /\ pc' = "w_done"
                ELSE /\ pc' = "w_sleep"
                     /\ UNCHANGED <<ret, reported>>
    /\ UNCHANGED <<timeout, start_time, elapsed, observe, nSleeps, task, nameVars, portVars, mainVars>>

\* WaitSleep with the 5-second sleep the comment of line 468 speaks of
WaitSleepFive ==
    /\ pc = "w_sleep"
    /\ clock' = clock + 5
    /\ nSleeps' = nSleeps + 1
    /\ lastOut' = NoOut
    /\ pc' = "w_loop"
    /\ UNCHANGED <<timeout, start_time, elapsed, last_elapsed_shown, dots, ret, reported,
                   observe, termSeen, emitted, task, cmds, nameVars, portVars, mainVars>>

\* time.sleep(3)
WaitSleep ==
    /\ pc = "w_sleep"
    /\ clock' = clock + PollInterval
    /\ nSleeps' = nSleeps + 1
    /\ lastOut' = NoOut
    /\ pc' = "w_loop"
    /\ UNCHANGED <<timeout, start_time, elapsed, last_elapsed_shown, dots, ret, reported,
                   observe, termSeen, emitted, task, cmds, nameVars, portVars, mainVars>>

(***************************************************************************)
(* A string is a sequence of pieces; the pieces urls are made of are the   *)
(* letter a, the slash, the dot and the three letters git.                 *)
(***************************************************************************)
Chars == {"a", "/", ".", "git"}
DotGit == <<".", "git">>

Max(S) == CHOOSE x \in S : \A y \in S : y <= x

\* str.rstrip(c)
RECURSIVE RStrip(_, _)
RStrip(s, c) ==
    IF s # <<>> /\ s[Len(s)] = c THEN RStrip(SubSeq(s, 1, Len(s) - 1), c) ELSE s

\* str.split('/')[-1]
LastSegment(s) ==
    LET cuts == {i \in 1..Len(s) : s[i] = "/"}
    IN  IF cuts = {} THEN s ELSE SubSeq(s, Max(cuts) + 1, Len(s))

\* str.replace(pat, ''): every occurrence of pat is removed, left to right
RECURSIVE Remove(_, _)
Remove(s, pat) ==
    IF Len(s) < Len(pat) THEN s
    ELSE IF SubSeq(s, 1, Len(pat)) = pat
    THEN Remove(SubSeq(s, Len(pat) + 1, Len(s)), pat)
    ELSE <<Head(s)>> \o Remove(Tail(s), pat)

\* url.rstrip('/').split('/')[-1].replace('.git', ''), lines 219 and 327
AppName(url) == Remove(LastSegment(RStrip(url, "/")), DotGit)

(***************************************************************************)
(* Presets.  An item of the JSON array is an object (dict) with fields f,  *)
(* or some other JSON value.                                               *)
(***************************************************************************)
App(url) == [dict |-> TRUE, f |-> [url |-> url, branch |-> <<"a">>]]
AppNoUrl == [dict |-> TRUE, f |-> [branch |-> <<"a">>]]
NotAnApp == [dict |-> FALSE, f |-> NoFields]

PresetArray(items) == [kind |-> "array", items |-> items]
PresetMissing == [kind |-> "missing", items |-> <<>>]
PresetNotJson == [kind |-> "not json", items |-> <<>>]
PresetNotArray == [kind |-> "not array", items |-> <<>>]

\* load_preset, lines 176-192: the list it returns, or the exception it raises
LoadPresetRaises(file) ==
    IF file.kind = "missing" THEN "FileNotFoundError"
    ELSE IF file.kind = "not json" THEN "JSONDecodeError"
    ELSE IF file.kind = "not array" THEN "ValueError"
    ELSE "none"

LoadPresetList(file) == file.items

\* create_env_file, lines 215-221: app_names (every item is a dict here)
RECURSIVE EnvAppNames(_)
EnvAppNames(list) ==
    IF list = <<>> THEN <<>>
    ELSE LET app_name == AppName(Get(Head(list).f, "url", <<>>))
         IN  (IF app_name # <<>> THEN <<app_name>> ELSE <<>>) \o EnvAppNames(Tail(list))

\* clone_apps_to_host, lines 322-327: app_name of every app of the loop
CloneAppNames(list) == [i \in 1..Len(list) |-> AppName(Get(list[i].f, "url", <<>>))]

(***************************************************************************)
(* find_available_port, lines 87-109.                                      *)
(***************************************************************************)
PortEnter ==
    /\ pc = "fp_entry"
    /\ try_port' = start_port
    /\ pc' = "fp_loop"
    /\ UNCHANGED <<pollVars, task, cmds, nameVars, mainVars, occupied, start_port, max_tries,
                   port_result>>

\* PortBind with the range taken to include start_port + max_tries
PortBindInclusive ==
    /\ pc = "fp_loop"
    /\ try_port <= start_port + max_tries
    /\ try_port \notin occupied
    /\ port_result' = <<"port", try_port>>
    /\ pc' = "fp_done"
    /\ UNCHANGED <<pollVars, task, cmds, nameVars, mainVars, occupied, start_port, max_tries,
                   try_port>>

\* sock.bind(('', port)) succeeds: return port
PortBind ==
    /\ pc = "fp_loop"
    /\ try_port < start_port + max_tries
    /\ try_port \notin occupied
    /\ port_result' = <<"port", try_port>>
    /\ pc' = "fp_done"
    /\ UNCHANGED <<pollVars, task, cmds, nameVars, mainVars, occupied, start_port, max_tries,
                   try_port>>

\* sock.bind raises OSError: continue
PortBusy ==
    /\ pc = "fp_loop"
    /\ try_port < start_port + max_tries
    /\ try_port \in occupied
    /\ try_port' = try_port + 1
    /\ UNCHANGED <<pc, pollVars, task, cmds, nameVars, mainVars, occupied, start_port, max_tries,
                   port_result>>

\* the range is exhausted: raise RuntimeError
PortExhausted ==
    /\ pc = "fp_loop"
    /\ ~(try_port < start_port + max_tries)
    /\ port_result' = <<"RuntimeError">>
    /\ pc' = "fp_done"
    /\ UNCHANGED <<pollVars, task, cmds, nameVars, mainVars, occupied, start_port, max_tries,
                   try_port>>

(***************************************************************************)
(* main, lines 516-752, and the handlers of lines 755-765.                 *)
(***************************************************************************)
StepOrder == <<"dependency check", "preset load", "port selection",
               "credential generation", "config write", "repository clone",
               "image build", "service start", "completion poll", "browser open">>

FrappeDir == <<"frappe">>

\* str.lower() on the characters a response is made of
LowerChar(c) ==
    CASE c = "Y" -> "y" [] c = "E" -> "e" [] c = "S" -> "s"
      [] c = "N" -> "n" [] c = "O" -> "o" [] OTHER -> c

Lower(s) == [i \in 1..Len(s) |-> LowerChar(s[i])]

Responses == {<<"y", "e", "s">>, <<"Y", "E", "S">>, <<"Y", "e", "s">>, <<"y", "e", "S">>,
              <<"n", "o">>, <<"N", "O">>, <<"y">>, <<>>, <<"y", "e", "s", " ">>}

\* Confirmed taking any answer that begins with y for a yes
ConfirmedByInitial(r) == r # <<>> /\ LowerChar(r[1]) = "y"

\* if response.lower() != 'yes', line 582
Confirmed(r) == Lower(r) = <<"y", "e", "s">>

\* docker compose down -v --remove-orphans, when it succeeds
TornDown(d) == [d EXCEPT !.services = FALSE, !.volumes = FALSE]

\* sys.exit(code), or the end of the script
Exit(code, kind) ==
    /\ pc' = "exit"
    /\ exited' = <<code>>
    /\ cause' = <<kind, pc>>

\* if args.destroy:, line 573
MainStart ==
    /\ pc = "main"
    /\ pc' = IF args.destroy THEN "prompt" ELSE "deps"
    /\ UNCHANGED <<pollVars, task, cmds, nameVars, portVars, mainVars>>

\* response = input(...), lines 581-584
Prompt ==
    /\ pc = "prompt"
    /\ \E r \in Responses :
         /\ response' = r
         /\ IF Confirmed(r)
            THEN pc' = "destroy" /\ UNCHANGED <<exited, cause>>
            ELSE Exit(0, "cancelled")
    /\ UNCHANGED <<pollVars, task, cmds, nameVars, portVars, args, port, passwords, files,
                   apps_dir, dirs, clone_i, docker, steps, clones, browser>>

\* except KeyboardInterrupt: ... sys.exit(0), lines 585-588
PromptInterrupt ==
    /\ pc = "prompt"
    /\ Exit(0, "interrupt")
    /\ UNCHANGED <<pollVars, task, cmds, nameVars, portVars, args, response, port,
                   passwords, files, apps_dir, dirs, clone_i, docker, steps, clones,
                   browser>>

\* input() at end of file raises EOFError: except Exception, lines 762-765
PromptEOF ==
    /\ pc = "prompt"
    /\ Exit(1, "failure")
    /\ UNCHANGED <<pollVars, task, cmds, nameVars, portVars, args, response, port,
                   passwords, files, apps_dir, dirs, clone_i, docker, steps, clones,
                   browser>>

\* destroy_environment and the exits of lines 591-598
Destroy ==
    /\ pc = "destroy"
    /\ cmds' = Ran("docker compose down -v")
    /\ \/ /\ docker' = TornDown(docker)
          /\ task' = AbsentTask
          /\ Exit(0, "destroyed")
       \/ /\ Exit(1, "failure")
          /\ UNCHANGED <<docker, task>>
    /\ UNCHANGED <<pollVars, nameVars, portVars, args, response, port, passwords, files,
                   apps_dir, dirs, clone_i, steps, clones, browser>>

\* Interrupt handled like any other exception, by lines 762-765
InterruptAsError ==
    /\ pc \notin {"exit", "prompt"}
    /\ Exit(1, "interrupt")
    /\ UNCHANGED <<pollVars, task, cmds, nameVars, portVars, args, response, port,
                   passwords, files, apps_dir, dirs, clone_i, docker, steps, clones,
                   browser>>

\* KeyboardInterrupt anywhere outside the try of lines 580-588: lines 758-761
Interrupt ==
    /\ pc \notin {"exit", "prompt"}
    /\ Exit(130, "interrupt")
    /\ UNCHANGED <<pollVars, task, cmds, nameVars, portVars, args, response, port,
                   passwords, files, apps_dir, dirs, clone_i, docker, steps, clones,
                   browser>>

\* Step 1, lines 611-621, with check_dependencies
CheckDeps ==
    /\ pc = "deps"
    /\ steps' = Append(steps, "dependency check")
    /\ cmds' = [cmds EXCEPT !["docker --version"] = @ + 1,
                            !["docker compose version"] = @ + 1]
    /\ \E docker_ok \in BOOLEAN, compose_ok \in BOOLEAN :
         IF docker_ok /\ compose_ok
         THEN pc' = "preset" /\ UNCHANGED <<exited, cause>>
         ELSE Exit(1, "failure")
    /\ UNCHANGED <<pollVars, task, nameVars, portVars, args, response, port, passwords,
                   files, apps_dir, dirs, clone_i, docker, clones, browser>>

\* Step 2, lines 623-633
LoadPreset ==
    /\ pc = "preset"
    /\ steps' = Append(steps, "preset load")
    /\ IF LoadPresetRaises(preset_file) = "none"
       THEN /\ apps' = LoadPresetList(preset_file)
            /\ pc' = "port"
            /\ UNCHANGED <<exited, cause>>
       ELSE /\ Exit(1, "failure")
            /\ UNCHANGED apps
    /\ UNCHANGED <<pollVars, task, cmds, preset_file, app_names, clone_names, portVars,
                   args, response, port, passwords, files, apps_dir, dirs, clone_i, docker,
                   clones, browser>>

\* Step 3, lines 635-648: if args.port: ... else: find_available_port()
SelectPort ==
    /\ pc = "port"
    /\ steps' = Append(steps, "port selection")
    /\ IF args.port # 0
       THEN /\ port' = args.port
            /\ pc' = "creds"
            /\ UNCHANGED <<start_port, max_tries>>
       ELSE /\ start_port' = DefaultStartPort
            /\ max_tries' = DefaultMaxTries
            /\ pc' = "fp_entry"
            /\ UNCHANGED port
    /\ UNCHANGED <<pollVars, task, cmds, nameVars, occupied, try_port, port_result, args,
                   response, passwords, files, apps_dir, dirs, clone_i, docker, clones,
                   browser, exited, cause>>

\* port = find_available_port() returned or raised RuntimeError, lines 644-648
PortReturn ==
    /\ pc = "fp_done"
    /\ IF port_result[1] = "port"
       THEN /\ port' = port_result[2]
            /\ pc' = "creds"
            /\ UNCHANGED <<exited, cause>>
       ELSE /\ Exit(1, "failure")
            /\ UNCHANGED port
    /\ UNCHANGED <<pollVars, task, cmds, nameVars, portVars, args, response, passwords,
                   files, apps_dir, dirs, clone_i, docker, steps, clones, browser>>

\* Step 4, lines 650-658
GenerateCreds ==
    /\ pc = "creds"
    /\ steps' = Append(steps, "credential generation")
    /\ passwords' = TRUE
    /\ pc' = "config"
    /\ UNCHANGED <<pollVars, task, cmds, nameVars, portVars, args, response, port, files,
                   apps_dir, dirs, clone_i, docker, clones, browser, exited, cause>>

\* Step 5, lines 660-670: create_env_file, then apps.json.  app.get on an item
\* that is no dict raises AttributeError and a failed write raises OSError;
\* both reach 'except Exception' of lines 762-765.
AllDicts(list) == \A i \in 1..Len(list) : list[i].dict

WriteConfig ==
    /\ pc = "config"
    /\ steps' = Append(steps, "config write")
    /\ IF ~AllDicts(apps)
       THEN /\ Exit(1, "failure")
            /\ UNCHANGED <<app_names, files>>
       ELSE /\ app_names' = EnvAppNames(apps)
            /\ \/ /\ files' = files \cup {".env", "apps.json"}
                  /\ pc' = "clone"
                  /\ UNCHANGED <<exited, cause>>
               \/ /\ files' = files \cup {".env"}
                  /\ Exit(1, "failure")
               \/ /\ Exit(1, "failure")
                  /\ UNCHANGED files
    /\ UNCHANGED <<pollVars, task, cmds, preset_file, apps, clone_names, portVars, args,
                   response, port, passwords, apps_dir, dirs, clone_i, docker, clones,
                   browser>>

\* Step 6 begins, lines 672-678; clone_apps_to_host lines 296-302
CloneMkdir ==
    /\ pc = "clone"
    /\ steps' = Append(steps, "repository clone")
    /\ apps_dir' = TRUE
    /\ pc' = "clone_frappe"
    /\ UNCHANGED <<pollVars, task, cmds, nameVars, portVars, args, response, port,
                   passwords, files, dirs, clone_i, docker, clones, browser, exited, cause>>

\* clone_apps_to_host lines 304-319: the framework
CloneFrappe ==
    /\ pc = "clone_frappe"
    /\ clone_i' = 1
    /\ IF FrappeDir \notin dirs
       THEN /\ cmds' = Ran("git clone")
            /\ clones' = Append(clones, FrappeDir)
            /\ \/ /\ dirs' = dirs \cup {FrappeDir}
                  /\ pc' = "clone_apps"
                  /\ UNCHANGED <<exited, cause>>
               \/ /\ Exit(1, "failure")
                  /\ UNCHANGED dirs
       ELSE /\ pc' = "clone_apps"
            /\ UNCHANGED <<cmds, clones, dirs, exited, cause>>
    /\ UNCHANGED <<pollVars, task, nameVars, portVars, args, response, port, passwords,
                   files, apps_dir, docker, steps, browser>>

\* CloneApp without the test 'if not app_path.exists()'
CloneAppAlways ==
    /\ pc = "clone_apps"
    /\ clone_i <= Len(apps)
    /\ LET app_name == AppName(Get(apps[clone_i].f, "url", <<>>))
       IN  /\ cmds' = Ran("git clone")
           /\ clones' = Append(clones, app_name)
           /\ \/ /\ dirs' = dirs \cup {app_name}
                 /\ clone_i' = clone_i + 1
                 /\ UNCHANGED <<pc, exited, cause>>
              \/ /\ Exit(1, "failure")
                 /\ UNCHANGED <<dirs, clone_i>>
    /\ UNCHANGED <<pollVars, task, nameVars, portVars, args, response, port, passwords,
                   files, apps_dir, docker, steps, browser>>

\* clone_apps_to_host lines 322-342: one turn of the loop over apps.  An empty
\* app_name makes app_path the apps directory itself, which exists.
CloneApp ==
    /\ pc = "clone_apps"
    /\ clone_i <= Len(apps)
    /\ LET app_name == AppName(Get(apps[clone_i].f, "url", <<>>))
       IN  IF app_name # <<>> /\ app_name \notin dirs
           THEN /\ cmds' = Ran("git clone")
                /\ clones' = Append(clones, app_name)
                /\ \/ /\ dirs' = dirs \cup {app_name}
                      /\ clone_i' = clone_i + 1
                      /\ UNCHANGED <<pc, exited, cause>>
                   \/ /\ Exit(1, "failure")
                      /\ UNCHANGED <<dirs, clone_i>>
           ELSE /\ clone_i' = clone_i + 1
                /\ UNCHANGED <<pc, cmds, clones, dirs, exited, cause>>
    /\ UNCHANGED <<pollVars, task, nameVars, portVars, args, response, port, passwords,
                   files, apps_dir, docker, steps, browser>>

\* clone_apps_to_host returns True, line 344
CloneDone ==
    /\ pc = "clone_apps"
    /\ clone_i > Len(apps)
    /\ pc' = "build"
    /\ UNCHANGED <<pollVars, task, cmds, nameVars, portVars, mainVars>>

\* Step 7, lines 686-705, with build_docker_image
Build ==
    /\ pc = "build"
    /\ steps' = Append(steps, "image build")
    /\ cmds' = Ran("docker build")
    /\ \/ /\ docker' = [docker EXCEPT !.image = TRUE]
          /\ pc' = "start"
          /\ UNCHANGED <<exited, cause>>
       \/ /\ Exit(1, "failure")
          /\ UNCHANGED docker
    /\ UNCHANGED <<pollVars, task, nameVars, portVars, args, response, port, passwords,
                   files, apps_dir, dirs, clone_i, clones, browser>>

\* start_docker_services(clean_start=True), lines 378-385: the exit status of
\* 'docker compose down -v --remove-orphans' is not looked at
StartDown ==
    /\ pc = "start"
    /\ steps' = Append(steps, "service start")
    /\ cmds' = Ran("docker compose down -v")
    /\ \/ /\ docker' = TornDown(docker)
          /\ task' = AbsentTask
       \/ UNCHANGED <<docker, task>>
    /\ pc' = "start_up"
    /\ UNCHANGED <<pollVars, nameVars, portVars, args, response, port, passwords, files,
                   apps_dir, dirs, clone_i, clones, browser, exited, cause>>

\* start_docker_services lines 394-402 and main lines 712-716
StartUp ==
    /\ pc = "start_up"
    /\ cmds' = Ran("docker compose up")
    /\ \/ /\ docker' = [docker EXCEPT !.services = TRUE, !.volumes = TRUE]
          /\ task' = [state |-> "created", code |-> 0]
          /\ pc' = "wait"
          /\ UNCHANGED <<exited, cause>>
       \/ /\ Exit(1, "failure")
          /\ UNCHANGED <<docker, task>>
    /\ UNCHANGED <<pollVars, nameVars, portVars, args, response, port, passwords, files,
                   apps_dir, dirs, clone_i, steps, clones, browser>>

\* Step 8, lines 718-724: wait_for_site_creation() is called
MainWait ==
    /\ pc = "wait"
    /\ steps' = Append(steps, "completion poll")
    /\ timeout' = ScaledTimeout
    /\ pc' = "w_entry"
    /\ UNCHANGED <<clock, start_time, elapsed, last_elapsed_shown, dots, ret, reported,
                   observe, lastOut, termSeen, nSleeps, emitted, task, cmds, nameVars, portVars,
                   args, response, port, passwords, files, apps_dir, dirs, clone_i, docker,
                   clones, browser, exited, cause>>

\* PollReturn without the test of the poller's result
PollReturnUnchecked ==
    /\ pc = "w_done"
    /\ lastOut' = NoOut
    /\ pc' = "browser"
    /\ UNCHANGED <<clock, timeout, start_time, elapsed, last_elapsed_shown, dots, ret,
                   reported, observe, termSeen, nSleeps, emitted, task, cmds, nameVars,
                   portVars, args, response, port, passwords, files, apps_dir, dirs,
                   clone_i, docker, steps, clones, browser, exited, cause>>

\* PollReturn with a teardown of what was started when the poller returns False
PollReturnCleanup ==
    /\ pc = "w_done"
    /\ lastOut' = NoOut
    /\ IF ret = "True"
       THEN /\ pc' = "browser"
            /\ UNCHANGED <<exited, cause, cmds, docker, task>>
       ELSE /\ cmds' = Ran("docker compose down -v")
            /\ docker' = TornDown(docker)
            /\ task' = AbsentTask
            /\ Exit(1, "failure")
    /\ UNCHANGED <<clock, timeout, start_time, elapsed, last_elapsed_shown, dots, ret,
                   reported, observe, termSeen, nSleeps, emitted, nameVars, portVars,
                   args, response, port, passwords, files, apps_dir, dirs, clone_i,
                   steps, clones, browser>>

\* if not wait_for_site_creation(): ... sys.exit(1), lines 724-735
PollReturn ==
    /\ pc = "w_done"
    /\ lastOut' = NoOut
    /\ IF ret = "True"
       THEN pc' = "browser" /\ UNCHANGED <<exited, cause>>
       ELSE Exit(1, "failure")
    /\ UNCHANGED <<clock, timeout, start_time, elapsed, last_elapsed_shown, dots, ret,
                   reported, observe, termSeen, nSleeps, emitted, task, cmds, nameVars, portVars,
                   args, response, port, passwords, files, apps_dir, dirs, clone_i, docker,
                   steps, clones, browser>>

\* Step 9, lines 737-749
OpenBrowser ==
    /\ pc = "browser"
    /\ IF args.no_browser
       THEN UNCHANGED <<steps, clock, browser>>
       ELSE /\ steps' = Append(steps, "browser open")
            /\ clock' = clock + BrowserPause
            /\ \E b \in {"opened", "not opened", "raised"} : browser' = b
    /\ pc' = "complete"
    /\ UNCHANGED <<timeout, start_time, elapsed, last_elapsed_shown, dots, ret, reported,
                   observe, lastOut, termSeen, nSleeps, emitted, task, cmds, nameVars, portVars,
                   args, response, port, passwords, files, apps_dir, dirs, clone_i, docker,
                   clones, exited, cause>>

\* Step 10, line 752: main returns and the interpreter exits with status 0
Complete ==
    /\ pc = "complete"
    /\ Exit(0, "completed")
    /\ UNCHANGED <<pollVars, task, cmds, nameVars, portVars, args, response, port,
                   passwords, files, apps_dir, dirs, clone_i, docker, steps, clones,
                   browser>>

(***************************************************************************)
(* Initial values of the parts a specification does not exercise.          *)
(***************************************************************************)
FreshDocker == [image |-> FALSE, services |-> FALSE, volumes |-> FALSE]
UsedDocker == [image |-> TRUE, services |-> TRUE, volumes |-> TRUE]

PollIdle ==
    /\ clock = 0
    /\ observe = FALSE
    /\ start_time = 0
    /\ elapsed = 0
    /\ last_elapsed_shown = 0
    /\ dots = 0
    /\ ret = "none"
    /\ reported = <<"none", 0>>
    /\ lastOut = NoOut
    /\ termSeen = FALSE
    /\ nSleeps = 0
    /\ emitted = <<>>

NameIdle ==
    /\ preset_file = PresetMissing
    /\ apps = <<>>
    /\ app_names = <<>>
    /\ clone_names = <<>>

PortIdle ==
    /\ occupied = {}
    /\ start_port = 0
    /\ max_tries = 0
    /\ try_port = 0
    /\ port_result = <<"none">>

MainIdle ==
    /\ args = [destroy |-> FALSE, port |-> 0, no_browser |-> FALSE]
    /\ response = <<>>
    /\ port = 0
    /\ passwords = FALSE
    /\ files = {}
    /\ apps_dir = FALSE
    /\ dirs = {}
    /\ clone_i = 0
    /\ docker = FreshDocker
    /\ steps = <<>>
    /\ clones = <<>>
    /\ browser = "none"
    /\ exited = <<>>
    /\ cause = <<"none", "none">>

(***************************************************************************)
(* The poller called on its own with a timeout of the caller's choice,     *)
(* against a task in any state.                                            *)
(***************************************************************************)
Timeouts == {0, PollInterval, ProgressInterval + 1, MaxTimeout}

Tasks == {AbsentTask, [state |-> "created", code |-> 0], [state |-> "running", code |-> 0]}
             \cup {[state |-> "exited", code |-> c] : c \in ExitCodes}

InitPoll ==
    /\ pc = "w_entry"
    /\ clock = 0
    /\ observe = TRUE
    /\ start_time = 0
    /\ elapsed = 0
    /\ last_elapsed_shown = 0
    /\ dots = 0
    /\ ret = "none"
    /\ reported = <<"none", 0>>
    /\ lastOut = NoOut
    /\ termSeen = FALSE
    /\ nSleeps = 0
    /\ emitted = <<>>
    /\ timeout \in Timeouts
    /\ task \in Tasks
    /\ cmds = [c \in Commands |-> 0]
    /\ NameIdle
    /\ PortIdle
    /\ MainIdle

NextPoll ==
    \/ WaitEnter
    \/ WaitLoop
    \/ WaitTimeout
    \/ WaitQuery
    \/ WaitSleep
    \/ TaskAdvance

SpecPoll == InitPoll /\ [][NextPoll]_vars

(***************************************************************************)
(* find_available_port called on its own.                                  *)
(***************************************************************************)
StartPorts == {DefaultStartPort, DefaultStartPort + 1}
ProbedPorts == DefaultStartPort..(DefaultStartPort + 1 + MaxTries)

InitPort ==
    /\ pc = "fp_entry"
    /\ occupied \in SUBSET ProbedPorts
    /\ start_port \in StartPorts
    /\ max_tries \in 0..MaxTries
    /\ try_port = 0
    /\ port_result = <<"none">>
    /\ PollIdle
    /\ timeout = 0
    /\ task = AbsentTask
    /\ cmds = [c \in Commands |-> 0]
    /\ NameIdle
    /\ MainIdle

NextPort ==
    \/ PortEnter
    \/ PortBind
    \/ PortBusy
    \/ PortExhausted

SpecPort == InitPort /\ [][NextPort]_vars

(***************************************************************************)
(* load_preset and the two name derivations, on valid presets.             *)
(***************************************************************************)
Urls == SeqsUpTo(Chars, MaxUrlLen)
FillerUrl == <<"a", "/", "a", "a">>

ValidPresets ==
    {PresetArray(<<>>)}
        \cup {PresetArray(<<App(u)>>) : u \in Urls}
        \cup {PresetArray(<<App(u), App(FillerUrl)>>) : u \in Urls}

NameLoad ==
    /\ pc = "n_entry"
    /\ LoadPresetRaises(preset_file) = "none"
    /\ apps' = LoadPresetList(preset_file)
    /\ pc' = "n_loaded"
    /\ UNCHANGED <<pollVars, task, cmds, preset_file, app_names, clone_names, portVars,
                   mainVars>>

NameEnv ==
    /\ pc = "n_loaded"
    /\ app_names' = EnvAppNames(apps)
    /\ pc' = "n_env"
    /\ UNCHANGED <<pollVars, task, cmds, preset_file, apps, clone_names, portVars,
                   mainVars>>

NameClone ==
    /\ pc = "n_env"
    /\ clone_names' = CloneAppNames(apps)
    /\ pc' = "n_done"
    /\ UNCHANGED <<pollVars, task, cmds, preset_file, apps, app_names, portVars,
                   mainVars>>

InitName ==
    /\ pc = "n_entry"
    /\ preset_file \in ValidPresets
    /\ apps = <<>>
    /\ app_names = <<>>
    /\ clone_names = <<>>
    /\ PollIdle
    /\ timeout = 0
    /\ task = AbsentTask
    /\ cmds = [c \in Commands |-> 0]
    /\ PortIdle
    /\ MainIdle

NextName ==
    \/ NameLoad
    \/ NameEnv
    \/ NameClone

SpecName == InitName /\ [][NextName]_vars

(***************************************************************************)
(* A run of the script.                                                    *)
(***************************************************************************)
UrlA == <<"git", "/", "a", ".", "git">>
UrlB == <<"git", "/", "a", "a", "/">>
UrlA2 == <<"a">>

Presets ==
    {PresetMissing, PresetNotJson, PresetNotArray,
     PresetArray(<<>>), PresetArray(<<App(UrlA)>>), PresetArray(<<App(UrlA), App(UrlB)>>),
     PresetArray(<<App(UrlA), App(UrlA2)>>), PresetArray(<<AppNoUrl>>),
     PresetArray(<<NotAnApp>>)}

\* The ports found bound: the first k from the default start port.
Occupancies == {DefaultStartPort..(DefaultStartPort + k - 1) : k \in {0, 1, DefaultMaxTries}}

\* The working directory and the runtime: untouched, or left by an earlier run.
FreshHost ==
    /\ files = {}
    /\ apps_dir = FALSE
    /\ dirs = {}
    /\ docker = FreshDocker
    /\ task = AbsentTask

UsedHost ==
    /\ files = {".env", "apps.json"}
    /\ apps_dir = TRUE
    /\ dirs = {FrappeDir, AppName(UrlA)}
    /\ docker = UsedDocker
    /\ task = [state |-> "exited", code |-> 0]

Init ==
    /\ pc = "main"
    /\ args \in [destroy : BOOLEAN, port : {0, GivenPort}, no_browser : BOOLEAN]
    /\ preset_file \in Presets
    /\ occupied \in Occupancies
    /\ args.port # 0 => occupied = {}
    /\ args.destroy => (preset_file = PresetMissing /\ occupied = {} /\ ~args.no_browser)
    /\ FreshHost \/ UsedHost
    /\ response = <<>>
    /\ port = 0
    /\ passwords = FALSE
    /\ clone_i = 0
    /\ steps = <<>>
    /\ clones = <<>>
    /\ browser = "none"
    /\ exited = <<>>
    /\ cause = <<"none", "none">>
    /\ apps = <<>>
    /\ app_names = <<>>
    /\ clone_names = <<>>
    /\ start_port = 0
    /\ max_tries = 0
    /\ try_port = 0
    /\ port_result = <<"none">>
    /\ PollIdle
    /\ timeout = 0
    /\ cmds = [c \in Commands |-> 0]

Next ==
    \/ MainStart
    \/ Prompt
    \/ PromptInterrupt
    \/ PromptEOF
    \/ Destroy
    \/ Interrupt
    \/ CheckDeps
    \/ LoadPreset
    \/ SelectPort
    \/ PortEnter
    \/ PortBind
    \/ PortBusy
    \/ PortExhausted
    \/ PortReturn
    \/ GenerateCreds
    \/ WriteConfig
    \/ CloneMkdir
    \/ CloneFrappe
    \/ CloneApp
    \/ CloneDone
    \/ Build
    \/ StartDown
    \/ StartUp
    \/ MainWait
    \/ WaitEnter
    \/ WaitLoop
    \/ WaitTimeout
    \/ WaitQuery
    \/ WaitSleep
    \/ TaskAdvance
    \/ PollReturn
    \/ OpenBrowser
    \/ Complete

Spec == Init /\ [][Next]_vars

(***************************************************************************)
(* The poller's claims, under SpecPoll.                                    *)
(***************************************************************************)
Min(S) == CHOOSE x \in S : \A y \in S : x <= y

\* The first exited create-site record of a status output that has one.
FirstExited(out) ==
    out.lines[Min({i \in 1..Len(out.lines) : IsExitedRecord(out.lines[i])})]

\* What the claims expect for a record: success for exit code 0, failure otherwise.
ExpectedReturn(line) ==
    IF Get(line.f, "ExitCode", DefaultExitCode) = 0 THEN "True" ELSE "False"

Decided == pc = "w_done" /\ reported[1] # "timed out"

\* C1: the poller decides on the first poll whose status output holds an exited
\* create-site record: it returns True for exit code 0 and False otherwise and
\* stops querying; a decision on the n-th query comes after exactly n-1 sleeps
\* (the third query of [pending, pending, exited/0], after two sleeps).
C1_DecidesOnFirstExited ==
    /\ termSeen => /\ pc = "w_done"
                   /\ HasExitedRecord(lastOut)
                   /\ ret = ExpectedReturn(FirstExited(lastOut))
    /\ Decided => nSleeps = cmds["docker compose ps"] - 1

\* C2 as claimed: a timeout is a result the caller can tell from both the
\* failure result (False) and the success result (True).
C2_TimeoutDistinctResult ==
    (pc = "w_done" /\ reported[1] = "timed out") => ret \notin {"True", "False"}

\* C2 as amended: a poll starts only before the deadline; when the poller ends
\* without any poll having seen an exited create-site record it has timed out:
\* it printed the timed-out line and returns False, the value it also returns
\* after printing the exit-code line of a failed task; True is returned only
\* with no error line printed.
C2_TimeoutReturnsFalse ==
    /\ pc = "w_query" => elapsed < timeout
    /\ pc = "w_done" =>
         /\ ~termSeen => (ret = "False" /\ reported = <<"timed out", timeout>>)
         /\ reported[1] = "timed out" => (ret = "False" /\ clock - start_time >= timeout)
         /\ reported[1] = "exit code" => ret = "False"
         /\ reported[1] = "none" <=> ret = "True"

C2_Witness ==
    /\ pc = "w_done"
    /\ reported[1] = "timed out"
    /\ ~termSeen
    /\ nSleeps >= 2

\* A line that cannot be read as a service record: no JSON, JSON that is no
\* object, or an object without the Service field.
Malformed(line) == ~line.json \/ ~line.dict \/ "Service" \notin DOMAIN line.f

MalformedThenExited(out) ==
    /\ out.rc = 0
    /\ \E i, j \in 1..Len(out.lines) :
         i < j /\ Malformed(out.lines[i]) /\ IsExitedRecord(out.lines[j])

\* C3: a malformed status record is skipped and the records after it in the
\* same output are still examined: an exited create-site record that follows a
\* malformed one is acted on in that poll.
C3_MalformedSkipped ==
    (pc \in {"w_sleep", "w_done"} /\ MalformedThenExited(lastOut)) => Decided

\* C6: a poll whose status output holds no exited create-site record (another
\* state, no record, a failed query) returns nothing and goes to sleep; the
\* sleep takes 3 seconds and leads back to the loop test, which starts the next
\* query while the deadline has not elapsed.
C6_NonTerminalKeepsPolling ==
    [][/\ (pc = "w_query" /\ pc' # pc /\ ~HasExitedRecord(lastOut'))
            => (pc' = "w_sleep" /\ ret' = "none" /\ reported' = reported)
       /\ (pc = "w_sleep" /\ pc' # pc)
            => (pc' = "w_loop" /\ clock' = clock + 3 /\ ret' = "none")
       /\ (pc = "w_loop" /\ pc' # pc /\ clock - start_time < timeout)
            => (pc' = "w_query" /\ clock' = clock /\ ret' = "none")]_vars

C6_Witness ==
    /\ pc = "w_query"
    /\ nSleeps >= 2
    /\ cmds["docker compose ps"] = nSleeps
    /\ task.state = "running"
    /\ ~termSeen

(***************************************************************************)
(* find_available_port, under SpecPort.                                    *)
(***************************************************************************)
PortRange == start_port..(start_port + max_tries - 1)
FreeInRange == PortRange \ occupied

\* C7: find_available_port returns the lowest port of
\* [start_port, start_port + max_tries) that is not occupied, and raises the
\* no-port-found error when every port of the range is occupied; what it
\* returns is never outside the range and never an occupied port.
C7_LowestFreePort ==
    pc = "fp_done" =>
        IF FreeInRange = {}
        THEN port_result = <<"RuntimeError">>
        ELSE /\ port_result = <<"port", Min(FreeInRange)>>
             /\ port_result[2] \in PortRange
             /\ port_result[2] \notin occupied

C7_Witness ==
    /\ pc = "fp_done"
    /\ start_port \in occupied
    /\ start_port + 1 \notin occupied
    /\ port_result = <<"port", start_port + 1>>

C7_WitnessExhausted ==
    /\ pc = "fp_done"
    /\ max_tries = MaxTries
    /\ PortRange \subseteq occupied
    /\ port_result = <<"RuntimeError">>

(***************************************************************************)
(* load_preset and the derived names, under SpecName.                      *)
(***************************************************************************)
\* A string with a trailing suffix removed, once, when it ends with it.
StripSuffix(s, suffix) ==
    IF Len(s) >= Len(suffix) /\ SubSeq(s, Len(s) - Len(suffix) + 1, Len(s)) = suffix
    THEN SubSeq(s, 1, Len(s) - Len(suffix))
    ELSE s

\* The name the claim expects: the final path segment less a trailing '.git'.
ExpectedName(url) == StripSuffix(LastSegment(RStrip(url, "/")), DotGit)

ExpectedNames(list) == [i \in 1..Len(list) |-> ExpectedName(Get(list[i].f, "url", <<>>))]

\* C8: load_preset returns a list as long as the array of a valid preset, and
\* the name derived for each repository is the final path segment of its url
\* with only a trailing '.git' stripped, the rest of the segment unchanged.
C8_NamesStripSuffixOnly ==
    pc = "n_done" =>
        /\ Len(apps) = Len(preset_file.items)
        /\ clone_names = ExpectedNames(preset_file.items)
        /\ app_names = SelectSeq(ExpectedNames(preset_file.items), LAMBDA n : n # <<>>)

(***************************************************************************)
(* The claims about a run of the script, under Spec.                       *)
(***************************************************************************)
Exited(code) == pc = "exit" /\ exited = <<code>>

\* C4 as claimed: an interrupt anywhere, the --destroy prompt included, ends
\* the process with exit code 130, and nothing else does.
C4_InterruptAlways130 ==
    pc = "exit" => (cause[1] = "interrupt" <=> exited = <<130>>)

\* C4 as amended: an interrupt anywhere but at the --destroy confirmation
\* prompt ends the process with exit code 130 and nothing else does; an
\* interrupt while the prompt waits for input cancels the teardown and the
\* process exits with code 0.
C4_InterruptOutsidePrompt ==
    pc = "exit" =>
        /\ exited = <<130>> <=> (cause[1] = "interrupt" /\ cause[2] # "prompt")
        /\ cause = <<"interrupt", "prompt">> => exited = <<0>>

C4_Witness ==
    /\ Exited(130)
    /\ cause = <<"interrupt", "w_sleep">>
    /\ cmds["docker compose ps"] >= 1

C4_WitnessPrompt ==
    /\ Exited(0)
    /\ cause = <<"interrupt", "prompt">>

IsPrefix(s, t) == Len(s) <= Len(t) /\ s = SubSeq(t, 1, Len(s))

Upto(n) == SubSeq(StepOrder, 1, n)

\* The step a position of main belongs to.
StepOfPc(p) ==
    CASE p = "deps" -> "dependency check"
      [] p = "preset" -> "preset load"
      [] p \in {"port", "fp_entry", "fp_loop", "fp_done"} -> "port selection"
      [] p = "creds" -> "credential generation"
      [] p = "config" -> "config write"
      [] p \in {"clone", "clone_frappe", "clone_apps"} -> "repository clone"
      [] p = "build" -> "image build"
      [] p \in {"start", "start_up"} -> "service start"
      [] p \in {"wait", "w_entry", "w_loop", "w_query", "w_sleep", "w_done"} -> "completion poll"
      [] p = "browser" -> "browser open"
      [] OTHER -> "none"

\* The steps run in the fixed order, and a failing step is the last one run
\* and ends the process with exit code 1.
OrderedAndFailFast ==
    /\ IsPrefix(steps, StepOrder)
    /\ (~args.destroy /\ pc = "exit" /\ cause[1] = "failure") =>
         /\ exited = <<1>>
         /\ steps # <<>>
         /\ steps[Len(steps)] = StepOfPc(cause[2])

\* C5 as claimed: the steps run in the fixed order, a failing step is the last
\* one run and gives exit code 1, and exit code 0 comes only after every step
\* of the run has succeeded (the browser step being left out by --no-browser).
C5_ExitZeroAfterAllSteps ==
    /\ OrderedAndFailFast
    /\ (~args.destroy /\ Exited(0)) =>
         /\ ret = "True"
         /\ steps = (IF args.no_browser THEN Upto(9) ELSE StepOrder)
         /\ browser \in {"none", "opened"}

\* C5 as amended: the steps run in the fixed order, a failing step (missing
\* dependency, invalid preset, no port, write, clone, build, start, site
\* creation failure or timeout) is the last one run and gives exit code 1, and
\* exit code 0 comes only after every step from the dependency check to the
\* completion poll has succeeded; the browser step is left out by --no-browser
\* and a browser that could not be opened does not change the exit code 0.
C5_ExitZeroAfterPoll ==
    /\ OrderedAndFailFast
    /\ (~args.destroy /\ Exited(0)) =>
         /\ cause = <<"completed", "complete">>
         /\ ret = "True"
         /\ steps = (IF args.no_browser THEN Upto(9) ELSE StepOrder)
         /\ port # 0 /\ passwords
         /\ {".env", "apps.json"} \subseteq files
         /\ docker.image /\ docker.services

C5_Witness ==
    /\ Exited(0)
    /\ steps = StepOrder
    /\ browser = "opened"
    /\ Len(clones) = 3

C5_WitnessFailure ==
    /\ Exited(1)
    /\ cause = <<"failure", "build">>
    /\ steps = Upto(7)

\* Yes in any mix of upper and lower case.
IsYes(r) ==
    /\ Len(r) = 3
    /\ r[1] \in {"y", "Y"} /\ r[2] \in {"e", "E"} /\ r[3] \in {"s", "S"}

\* The --destroy prompt was answered (not interrupted, not at end of file).
Answered ==
    \/ pc = "destroy"
    \/ pc = "exit" /\ (cause = <<"cancelled", "prompt">> \/ cause[2] = "destroy")

NoCommandRun == \A c \in Commands : cmds[c] = 0

\* C9: with --destroy the teardown command runs only after the prompt was
\* answered yes (in any case); after any other answer no command is run, the
\* host is as it was and the process exits with code 0; a yes leads to the
\* teardown; and no setup step is ever run.
C9_DestroyNeedsYes ==
    args.destroy =>
        /\ steps = <<>> /\ clones = <<>>
        /\ \A c \in Commands \ {"docker compose down -v"} : cmds[c] = 0
        /\ cmds["docker compose down -v"] > 0 => (Answered /\ IsYes(response))
        /\ cmds["docker compose down -v"] = 0 => (FreshHost \/ UsedHost)
        /\ (Answered /\ ~IsYes(response)) => (Exited(0) /\ NoCommandRun)
        /\ (Answered /\ IsYes(response)) =>
             (pc = "destroy" \/ cmds["docker compose down -v"] = 1 \/ Exited(130))

C9_Witness ==
    /\ args.destroy
    /\ response = <<"Y", "E", "S">>
    /\ Exited(0)
    /\ cmds["docker compose down -v"] = 1
    /\ docker.image /\ ~docker.volumes

C9_WitnessCancel ==
    /\ args.destroy
    /\ response = <<"y">>
    /\ Exited(0)
    /\ UsedHost

NoDuplicates(seq) == \A i, j \in 1..Len(seq) : i # j => seq[i] # seq[j]

PollerPcs == {"w_entry", "w_loop", "w_query", "w_sleep", "w_done"}

\* C10: in one run every external command but the status query is run at most
\* once, git clone at most once for each repository directory; and no step
\* of wait_for_site_creation changes the create-site task or the runtime.
C10_NoRetryReadOnlyPoller ==
    /\ [](/\ \A c \in Commands \ {"docker compose ps", "git clone"} : cmds[c] <= 1
          /\ cmds["git clone"] = Len(clones)
          /\ NoDuplicates(clones))
    /\ [][(pc \in PollerPcs /\ (pc' # pc \/ pollVars' # pollVars \/ cmds' # cmds))
             => (task' = task /\ docker' = docker)]_vars

C10_Witness ==
    /\ Exited(0)
    /\ cmds["docker compose ps"] >= 2
    /\ cmds["git clone"] = 3
    /\ cmds["docker build"] = 1
    /\ cmds["docker compose down -v"] = 1
    /\ cmds["docker compose up"] = 1
    /\ task.state = "exited"

\* The positions of main after the config write at which a step can fail.
AfterConfigPcs == {"clone_frappe", "clone_apps", "build", "start_up", "w_done"}

\* The run has failed at a step after the config write.
FailedAfterConfig ==
    /\ ~args.destroy
    /\ pc = "exit"
    /\ cause[1] = "failure"
    /\ cause[2] \in AfterConfigPcs

TeardownCommands == {"docker compose down -v", "docker compose down"}

\* What the run made before it failed is there when it ends.
ArtifactsInPlace ==
    /\ {".env", "apps.json"} \subseteq files
    /\ apps_dir
    /\ \A i \in 1..Len(clones) :
         (i < Len(clones) \/ cause[2] \notin {"clone_frappe", "clone_apps"})
             => clones[i] \in dirs
    /\ cause[2] \in {"start_up", "w_done"} => docker.image
    /\ cause[2] = "w_done" => (docker.services /\ docker.volumes)

\* C11: a setup run that fails at a step after the config write (clone, build,
\* service start, site creation or timeout) ends with everything it made
\* before the failure in place (.env, apps.json, the cloned directories, the
\* built image, the started services); the failing step deletes nothing and
\* runs no teardown, the only teardown of the run being the one that the
\* service start step runs before 'docker compose up'; and no step of a setup
\* run removes a file, a cloned directory or the image.
C11_NoRollback ==
    /\ [](FailedAfterConfig =>
            /\ ArtifactsInPlace
            /\ cmds["docker compose down"] = 0
            /\ cmds["docker compose down -v"] =
                   (IF cause[2] \in {"start_up", "w_done"} THEN 1 ELSE 0))
    /\ [][(~args.destroy /\ pc # "exit" /\ pc' = "exit" /\ cause'[1] = "failure")
             => /\ docker' = docker
                /\ \A c \in TeardownCommands : cmds'[c] = cmds[c]]_vars
    /\ [][~args.destroy
             => /\ files \subseteq files'
                /\ dirs \subseteq dirs'
                /\ (apps_dir => apps_dir')
                /\ (docker.image => docker'.image)]_vars

C11_Witness ==
    /\ FailedAfterConfig
    /\ cause[2] = "w_done"
    /\ reported[1] = "timed out"
    /\ Len(clones) = 3
    /\ docker = UsedDocker
    /\ {".env", "apps.json"} \subseteq files

C11_WitnessClone ==
    /\ FailedAfterConfig
    /\ cause[2] = "clone_apps"
    /\ Len(clones) = 3
    /\ clones[2] \in dirs
    /\ clones[3] \notin dirs
    /\ docker = FreshDocker

(***************************************************************************)
(* The claim about the progress line, under SpecPoll.  emitted holds the   *)
(* value of elapsed shown by each progress line, in the order printed.     *)
(***************************************************************************)
IsTaskRecord(line) ==
    line.json /\ line.dict /\ Get(line.f, "Service", "") = "create-site"

\* C12: over a run of the poller, with any number of polls and of create-site
\* records in a status output, the first progress line is printed no earlier
\* than 10 seconds of elapsed time after the start, two consecutive progress
\* lines are at least 10 seconds of elapsed time apart, and the number of
\* progress lines never exceeds elapsed / 10.
C12_ProgressThrottled ==
    /\ \A i \in 1..Len(emitted) :
         /\ emitted[i] >= ProgressInterval
         /\ emitted[i] <= elapsed
         /\ i > 1 => emitted[i] - emitted[i - 1] >= ProgressInterval
    /\ Len(emitted) * ProgressInterval <= elapsed
    /\ last_elapsed_shown = (IF emitted = <<>> THEN 0 ELSE emitted[Len(emitted)])
    /\ dots = Len(emitted) % DotsModulus

C12_Witness ==
    /\ pc = "w_sleep"
    /\ Len(emitted) = 2
    /\ emitted[2] = elapsed
    /\ Len(lastOut.lines) = 2
    /\ \A i \in 1..2 : IsTaskRecord(lastOut.lines[i])

(***************************************************************************)
(* The claim about the clean start of the services, under Spec.            *)
(***************************************************************************)
\* The positions of a setup run after 'docker compose up -d' has succeeded.
AfterUpPcs == {"wait", "browser", "complete"} \cup PollerPcs

\* The teardown ran once, unprompted, before any 'docker compose up', and the
\* completion poll starts only after the teardown and a successful up.
TeardownBeforeUp ==
    ~args.destroy =>
        /\ response = <<>>
        /\ cmds["docker compose down"] = 0
        /\ cmds["docker compose down -v"] <= 1
        /\ (pc = "start_up" \/ cmds["docker compose up"] > 0)
              => cmds["docker compose down -v"] = 1
        /\ pc \in AfterUpPcs =>
              /\ cmds["docker compose up"] = 1
              /\ docker.services
        /\ cmds["docker compose ps"] > 0 => cmds["docker compose up"] = 1

\* C13: a setup run that reaches the service start runs the volume-removing
\* teardown, unprompted and whatever its exit status, before 'docker compose
\* up -d'; the completion poll starts only after the teardown and a
\* successful up; and once the teardown has run no volume of an earlier run
\* is left, so that 'docker compose up -d' starts from no volumes.
C13_VolumesNeverSurvive ==
    /\ TeardownBeforeUp
    /\ (~args.destroy /\ pc = "start_up") => ~docker.volumes

====
